---- MODULE Spec2Model ----
(***************************************************************************)
(* A model of mlit_summary.py: the date resolver (get_fetch_date), the     *)
(* paragraph chunker (send_to_slack._chunk_text), the Markdown to Slack    *)
(* conversion (_convert_md_to_slack) and one run of main with its two      *)
(* selectors (fetch_minister_interviews, fetch_press_releases).            *)
(*                                                                         *)
(* Dates are day numbers (days since 1970-01-01); instants are whole hours *)
(* since 1970-01-01T00:00 UTC.  Texts are sequences of characters.         *)
(***************************************************************************)
EXTENDS Integers, Sequences, FiniteSets, TLC

VARIABLES
    \* ---- get_fetch_date called on its own
    dNow,        \* the instant dt.datetime.now reads
    dDaysBack,   \* the days_back argument
    dResult,     \* the returned date, NoDate before the call
    \* ---- _chunk_text
    s,           \* the text given to _chunk_text
    limit,       \* its limit argument
    cpc,         \* position in _chunk_text: "start", "loop", "done"
    paragraphs,  \* s.split("\n\n")
    pidx,        \* index of the next paragraph the for loop takes (1-based)
    cur,         \* the running accumulation
    chunks,      \* the emitted chunks
    cont,        \* cont[k]: chunks[k] is a second or later slice of a hard-split paragraph
    \* ---- _convert_md_to_slack
    md,          \* the Markdown document given to _convert_md_to_slack
    mpc,         \* "start" before the call, "done" after it
    md_out,      \* the returned text
    \* ---- one run of main
    pc,          \* position in main
    now,         \* the wall clock, read by every dt.datetime.now(JST)
    ticks,       \* how many times the clock has advanced during the run
    days_back,   \* MLIT_DAYS_BACK
    max_items,   \* max_items of fetch_minister_interviews
    plimit,      \* limit of fetch_press_releases
    ivDate,      \* fetch_date of fetch_minister_interviews, NoDate before line 185
    ivIdx,       \* number of links of the listing page enumerated so far
    ivFetched,   \* number of interview detail pages fetched so far
    interviews,  \* items of fetch_minister_interviews, [idx, date]
    prDate,      \* fetch_date of fetch_press_releases, NoDate before line 82
    prIdx,       \* number of feed entries taken so far
    entry,       \* e, the feed entry of the current iteration, NoEntry outside the loop
    pub_date,    \* its derived publication date
    press,       \* items of fetch_press_releases, [idx, date]
    promptDate,  \* fetch_date of build_prompt, NoDate before line 245
    delivery,    \* DELIVERY, "unread" before line 455
    fileWritten, \* latest_summary.md has been written in this run
    slackPosted, \* chat_postMessage has delivered the message in this run
    emailSent,   \* send_message has sent the mail in this run
    raised       \* the exception that ended the run, "none" if none

dateVars  == <<dNow, dDaysBack, dResult>>
chunkVars == <<s, limit, cpc, paragraphs, pidx, cur, chunks, cont>>
mdVars    == <<md, mpc, md_out>>
runVars   == <<pc, now, ticks, days_back, max_items, plimit, ivDate, ivIdx, ivFetched,
               interviews, prDate, prIdx, entry, pub_date, press, promptDate, delivery,
               fileWritten, slackPosted, emailSent, raised>>
vars == <<dateVars, chunkVars, mdVars, runVars>>

(* ------------------------------ bounds -------------------------------- *)
NowBase     == 489744   \* 2025-11-14T00:00 UTC, the first instant considered
NowSpan     == 240      \* number of hours after NowBase considered
MaxDaysBack == 8
MaxText     == 6        \* longest text given to the chunker
MaxLimit    == 3        \* largest chunk limit
MaxDoc      == 5        \* longest Markdown document, in symbols
TickHours   == 12       \* hours by which the clock advances in one step of a run
MaxStart    == 3        \* a run starts at NowBase + k * TickHours, k in 0..MaxStart
MaxTicks    == 2        \* clock advances during one run
MaxRunDaysBack == 1     \* largest MLIT_DAYS_BACK of a run
MaxItems    == 2        \* largest max_items
MaxLinks    == 3        \* most links on the listing page
MaxEntries  == 2        \* most entries in the feed, and the largest limit

NoDate == -1

Min(a, b) == IF a < b THEN a ELSE b

(* --------------------------- get_fetch_date --------------------------- *)
JSTOffset == 9          \* zoneinfo.ZoneInfo("Asia/Tokyo"): UTC+9, no DST

\* dt.datetime.now(JST).date() when the clock reads the instant at
DateJST(at) == (at + JSTOffset) \div 24

\* date.weekday(): Monday is 0 ... Sunday is 6 (1970-01-01 was a Thursday)
Weekday(d) == (d + 3) % 7

\* get_fetch_date with the Sunday case moved back by one day only (mutant)
get_fetch_date_sun1(at, back) ==
    LET fetch_date == DateJST(at) - back
    IN  IF Weekday(fetch_date) = 5 THEN fetch_date - 1
        ELSE IF Weekday(fetch_date) = 6 THEN fetch_date - 1
        ELSE fetch_date

get_fetch_date(at, back) ==
    LET fetch_date == DateJST(at) - back
    IN  IF Weekday(fetch_date) = 5 THEN fetch_date - 1
        ELSE IF Weekday(fetch_date) = 6 THEN fetch_date - 2
        ELSE fetch_date

(* ----------------------------- _chunk_text ---------------------------- *)
NL == "\n"
Chars == {"a", "b", NL}

RECURSIVE Texts(_)
Texts(n) == IF n = 0 THEN {<<>>}
            ELSE Texts(n - 1) \cup {Append(t, c) : t \in Texts(n - 1), c \in Chars}

\* str.split("\n\n") from position i on, acc being the piece under construction:
\* separators are found left to right and do not overlap
RECURSIVE SplitFrom(_, _, _)
SplitFrom(t, i, acc) ==
    IF i > Len(t) THEN <<acc>>
    ELSE IF i < Len(t) /\ t[i] = NL /\ t[i + 1] = NL
         THEN <<acc>> \o SplitFrom(t, i + 2, <<>>)
         ELSE SplitFrom(t, i + 1, Append(acc, t[i]))

Split(t) == SplitFrom(t, 1, <<>>)

\* slices cut one character too long (mutant)
SlicesOver(p, lim) ==
    [k \in 1..((Len(p) + lim) \div (lim + 1)) |->
        SubSeq(p, (k - 1) * (lim + 1) + 1, Min(k * (lim + 1), Len(p)))]

\* [p[i : i + lim] for i in range(0, len(p), lim)]
Slices(p, lim) ==
    [k \in 1..((Len(p) + lim - 1) \div lim) |->
        SubSeq(p, (k - 1) * lim + 1, Min(k * lim, Len(p)))]

\* the cont flags of the slices of one hard-split paragraph
SliceFlags(n) == [k \in 1..n |-> k > 1]

\* candidate = cur + "\n\n" + p if cur else p
Candidate(c, p) == IF c # <<>> THEN c \o <<NL, NL>> \o p ELSE p

(* ------------------------ _convert_md_to_slack ------------------------ *)
\* A document is a sequence of symbols: single characters, except that the
\* fence of three backquotes and the text of a placeholder are one symbol each.
FENCE  == "<fence>"
AST    == "*"
HASH   == "#"
DASH   == "-"
SP     == " "
LETTER == "x"
BULLET == "<bullet>"
Key(i) == CASE i = 0 -> "__CODEBLOCK_0__"
            [] i = 1 -> "__CODEBLOCK_1__"
            [] i = 2 -> "__CODEBLOCK_2__"
            [] OTHER -> "__CODEBLOCK_3__"

Symbols == {FENCE, AST, HASH, DASH, SP, NL, LETTER, Key(0), Key(1)}

RECURSIVE Docs(_)
Docs(n) == IF n = 0 THEN {<<>>}
           ELSE Docs(n - 1) \cup {Append(t, c) : t \in Docs(n - 1), c \in Symbols}

SetMin(S) == CHOOSE x \in S : \A y \in S : x <= y

\* the first index >= i whose symbol is not in (is in) set, Len(t) + 1 if none
FirstNotIn(t, i, set) ==
    LET c == {k \in i..Len(t) : t[k] \notin set}
    IN  IF c = {} THEN Len(t) + 1 ELSE SetMin(c)
FirstIn(t, i, set) ==
    LET c == {k \in i..Len(t) : t[k] \in set}
    IN  IF c = {} THEN Len(t) + 1 ELSE SetMin(c)

\* (?m)^ : position i starts a line
AtLineStart(t, i) == i = 1 \/ t[i - 1] = NL

\* re.sub(fence [\s\S]*? fence, _code_repl, md): each fence up to the next fence is
\* one block, replaced by the key made from the number of blocks stored so far
RECURSIVE ExtractFrom(_, _, _, _)
ExtractFrom(t, i, tmp, blocks) ==
    IF i > Len(t) THEN [tmp |-> tmp, blocks |-> blocks]
    ELSE IF t[i] = FENCE /\ FirstIn(t, i + 1, {FENCE}) <= Len(t)
         THEN LET j == FirstIn(t, i + 1, {FENCE})
              IN  ExtractFrom(t, j + 1, Append(tmp, Key(Len(blocks))),
                              Append(blocks, SubSeq(t, i, j)))
         ELSE ExtractFrom(t, i + 1, Append(tmp, t[i]), blocks)

Extract(t) == ExtractFrom(t, 1, <<>>, <<>>)

\* re.sub(r"\*\*(.+?)\*\*", r"*\1* ", md_tmp)
RECURSIVE BoldFrom(_, _)
BoldFrom(t, i) ==
    IF i > Len(t) THEN <<>>
    ELSE LET closers == {j \in (i + 3)..(Len(t) - 1) :
                            /\ t[j] = AST /\ t[j + 1] = AST
                            /\ \A m \in (i + 2)..(j - 1) : t[m] # NL}
         IN  IF i < Len(t) /\ t[i] = AST /\ t[i + 1] = AST /\ closers # {}
             THEN LET j == SetMin(closers)
                  IN  <<AST>> \o SubSeq(t, i + 2, j - 1) \o <<AST, SP>> \o BoldFrom(t, j + 2)
             ELSE <<t[i]>> \o BoldFrom(t, i + 1)

\* re.sub(r"(?m)^[ \t]*#{1,6}\s+.*$", _hdr, md_tmp) with
\* _hdr: "*" + re.sub(r"^#+\s*", "", line) + "*"
RECURSIVE HeadFrom(_, _)
HeadFrom(t, i) ==
    IF i > Len(t) THEN <<>>
    ELSE LET a == FirstNotIn(t, i, {SP})         \* after [ \t]*
             b == FirstNotIn(t, a, {HASH})       \* after the hashes
             c == FirstNotIn(t, b, {SP, NL})     \* after \s+
             z == FirstIn(t, c, {NL}) - 1        \* the end of that line
         IN  IF /\ AtLineStart(t, i)
                /\ b - a >= 1 /\ b - a <= 6
                /\ c > b
             THEN <<AST>> \o (IF a = i THEN SubSeq(t, c, z) ELSE SubSeq(t, i, z))
                        \o <<AST>> \o HeadFrom(t, z + 1)
             ELSE <<t[i]>> \o HeadFrom(t, i + 1)

\* re.sub(r"(?m)^[ \t]*[-*]\s+", "\u2022 ", md_tmp)
RECURSIVE ListFrom(_, _)
ListFrom(t, i) ==
    IF i > Len(t) THEN <<>>
    ELSE LET a == FirstNotIn(t, i, {SP})
             c == FirstNotIn(t, a + 1, {SP, NL})
         IN  IF /\ AtLineStart(t, i)
                /\ a <= Len(t) /\ t[a] \in {DASH, AST}
                /\ c > a + 1
             THEN <<BULLET, SP>> \o ListFrom(t, c)
             ELSE <<t[i]>> \o ListFrom(t, i + 1)

\* str.replace(k, v): every occurrence of the key, left to right, in one pass
RECURSIVE ReplaceAll(_, _, _)
ReplaceAll(t, k, v) ==
    IF t = <<>> THEN <<>>
    ELSE (IF Head(t) = k THEN v ELSE <<Head(t)>>) \o ReplaceAll(Tail(t), k, v)

\* for k, v in code_blocks.items(): md_tmp = md_tmp.replace(k, v)
RECURSIVE RestoreFrom(_, _, _)
RestoreFrom(t, blocks, n) ==
    IF n >= Len(blocks) THEN t
    ELSE RestoreFrom(ReplaceAll(t, Key(n), blocks[n + 1]), blocks, n + 1)

Restore(t, blocks) == RestoreFrom(t, blocks, 0)

convert_md_to_slack(doc) ==
    LET ex == Extract(doc)
    IN  Restore(ListFrom(HeadFrom(BoldFrom(ex.tmp, 1), 1), 1), ex.blocks)

(* ------------------------------ selectors ----------------------------- *)
NoStamp == -1
\* a feed entry, as the loop of fetch_press_releases reads it: the *_parsed
\* attributes are UTC instants or absent (NoStamp); dc_date is whether the
\* attribute "dc:date" is present and truthy
NoEntry == [published_parsed |-> NoStamp, updated_parsed |-> NoStamp,
            dc_date |-> FALSE, dc_date_parsed |-> NoStamp, none |-> TRUE]

\* the instants feed entries carry: 2025-11-13T16:00 UTC (the 14th in JST),
\* 2025-11-13T03:00 UTC (the 13th in JST)
Stamps == {NowBase - 8, NowBase - 21}

Entries == [published_parsed : Stamps \cup {NoStamp},
            updated_parsed   : Stamps \cup {NoStamp},
            dc_date          : BOOLEAN,
            dc_date_parsed   : {NowBase - 8, NoStamp},
            none             : {FALSE}]

\* the dates a detail page or a date-coded link can carry
RunDates == (DateJST(NowBase) - 3)..(DateJST(NowBase) + 4)

\* lines 86-111: the derived date of entry en; AttrError when line 102 reads
\* an absent dc_date_parsed
AttrError == -2
derived_pub_date(en, fetch_date) ==
    IF en.published_parsed # NoStamp THEN DateJST(en.published_parsed)
    ELSE IF en.updated_parsed # NoStamp THEN DateJST(en.updated_parsed)
    ELSE IF en.dc_date
         THEN (IF en.dc_date_parsed = NoStamp THEN AttrError
               ELSE DateJST(en.dc_date_parsed))
    ELSE fetch_date

\* line 195: the link is taken when its href holds daijin<yymmdd>.html of the
\* fetch date or starts with "daijin"
Links == [kind : {"prefix", "other"}, d : {NoDate}] \cup [kind : {"dated"}, d : RunDates]
link_matches(a, fetch_date) ==
    (a.kind = "dated" /\ a.d = fetch_date) \/ a.kind = "prefix"

\* what _parse_japanese_date finds on a detail page: no date expression, the
\* expression of a date, or one that is no calendar date
Pages == [found : {"none", "invalid"}, d : {NoDate}] \cup [found : {"date"}, d : RunDates]

(* ------------------------- idle sub-systems ---------------------------- *)
IdleDate  == dNow = NowBase /\ dDaysBack = 0 /\ dResult = NoDate
IdleChunk == /\ s = <<>> /\ limit = 1 /\ cpc = "idle" /\ paragraphs = <<>>
             /\ pidx = 1 /\ cur = <<>> /\ chunks = <<>> /\ cont = <<>>
IdleMd    == md = <<>> /\ mpc = "idle" /\ md_out = <<>>
IdleRun   == /\ pc = "idle" /\ now = NowBase /\ ticks = 0 /\ days_back = 0
             /\ max_items = 0 /\ plimit = 0
             /\ ivDate = NoDate /\ ivIdx = 0 /\ ivFetched = 0 /\ interviews = <<>>
             /\ prDate = NoDate /\ prIdx = 0 /\ entry = NoEntry /\ pub_date = NoDate
             /\ press = <<>> /\ promptDate = NoDate /\ delivery = "unread"
             /\ fileWritten = FALSE /\ slackPosted = FALSE /\ emailSent = FALSE
             /\ raised = "none"

(* ------------------- specification: get_fetch_date -------------------- *)
InitDate ==
    /\ dNow \in NowBase..(NowBase + NowSpan)
    /\ dDaysBack \in 0..MaxDaysBack
    /\ dResult = NoDate
    /\ IdleChunk /\ IdleMd /\ IdleRun

CallGetFetchDate ==
    /\ dResult = NoDate
    /\ dResult' = get_fetch_date(dNow, dDaysBack)
    /\ UNCHANGED <<dNow, dDaysBack, chunkVars, mdVars, runVars>>

NextDate == CallGetFetchDate
SpecDate == InitDate /\ [][NextDate]_vars

(* ---------------------- specification: _chunk_text --------------------- *)
InitChunk ==
    /\ s \in Texts(MaxText)
    /\ limit \in 1..MaxLimit
    /\ cpc = "start"
    /\ paragraphs = <<>> /\ pidx = 1 /\ cur = <<>> /\ chunks = <<>> /\ cont = <<>>
    /\ IdleDate /\ IdleMd /\ IdleRun

\* paragraphs = s.split("\n\n"); chunks = []; cur = ""
ChunkSplit ==
    /\ cpc = "start"
    /\ paragraphs' = Split(s)
    /\ cpc' = "loop"
    /\ UNCHANGED <<s, limit, pidx, cur, chunks, cont, dateVars, mdVars, runVars>>

\* one iteration of the for loop, len(candidate) <= limit: cur = candidate
ChunkAccumulate ==
    /\ cpc = "loop" /\ pidx <= Len(paragraphs)
    /\ LET p == paragraphs[pidx]
       IN  /\ Len(Candidate(cur, p)) <= limit
           /\ cur' = Candidate(cur, p)
    /\ pidx' = pidx + 1
    /\ UNCHANGED <<s, limit, cpc, paragraphs, chunks, cont, dateVars, mdVars, runVars>>

\* one iteration, len(candidate) > limit and cur non-empty: flush cur, then
\* start again from p, or hard-split p when it is itself longer than limit
ChunkFlush ==
    /\ cpc = "loop" /\ pidx <= Len(paragraphs)
    /\ LET p == paragraphs[pidx]
       IN  /\ Len(Candidate(cur, p)) > limit
           /\ cur # <<>>
           /\ IF Len(p) > limit
              THEN /\ chunks' = Append(chunks, cur) \o Slices(p, limit)
                   /\ cont' = Append(cont, FALSE) \o SliceFlags(Len(Slices(p, limit)))
                   /\ cur' = <<>>
              ELSE /\ chunks' = Append(chunks, cur)
                   /\ cont' = Append(cont, FALSE)
                   /\ cur' = p
    /\ pidx' = pidx + 1
    /\ UNCHANGED <<s, limit, cpc, paragraphs, dateVars, mdVars, runVars>>

\* one iteration, len(candidate) > limit and cur empty: hard-split p
ChunkHardSplit ==
    /\ cpc = "loop" /\ pidx <= Len(paragraphs)
    /\ LET p == paragraphs[pidx]
       IN  /\ Len(Candidate(cur, p)) > limit
           /\ cur = <<>>
           /\ chunks' = chunks \o Slices(p, limit)
           /\ cont' = cont \o SliceFlags(Len(Slices(p, limit)))
    /\ cur' = <<>>
    /\ pidx' = pidx + 1
    /\ UNCHANGED <<s, limit, cpc, paragraphs, dateVars, mdVars, runVars>>

\* after the loop: if cur: chunks.append(cur); return chunks
ChunkReturn ==
    /\ cpc = "loop" /\ pidx > Len(paragraphs)
    /\ chunks' = IF cur # <<>> THEN Append(chunks, cur) ELSE chunks
    /\ cont' = IF cur # <<>> THEN Append(cont, FALSE) ELSE cont
    /\ cpc' = "done"
    /\ UNCHANGED <<s, limit, paragraphs, pidx, cur, dateVars, mdVars, runVars>>

NextChunk == ChunkSplit \/ ChunkAccumulate \/ ChunkFlush \/ ChunkHardSplit \/ ChunkReturn
SpecChunk == InitChunk /\ [][NextChunk]_vars

(* ------------------ specification: _convert_md_to_slack ---------------- *)
InitMd ==
    /\ md \in Docs(MaxDoc)
    /\ mpc = "start"
    /\ md_out = <<>>
    /\ IdleDate /\ IdleChunk /\ IdleRun

CallConvert ==
    /\ mpc = "start"
    /\ md_out' = convert_md_to_slack(md)
    /\ mpc' = "done"
    /\ UNCHANGED <<md, dateVars, chunkVars, runVars>>

NextMd == CallConvert
SpecMd == InitMd /\ [][NextMd]_vars

(* ------------------------ specification: main -------------------------- *)
Init ==
    /\ pc = "start"
    /\ now \in {NowBase + k * TickHours : k \in 0..MaxStart}
    /\ ticks = 0
    /\ days_back \in 0..MaxRunDaysBack
    /\ max_items \in 0..MaxItems
    /\ plimit \in 0..MaxEntries
    /\ ivDate = NoDate /\ ivIdx = 0 /\ ivFetched = 0 /\ interviews = <<>>
    /\ prDate = NoDate /\ prIdx = 0 /\ entry = NoEntry /\ pub_date = NoDate
    /\ press = <<>> /\ promptDate = NoDate /\ delivery = "unread"
    /\ fileWritten = FALSE /\ slackPosted = FALSE /\ emailSent = FALSE
    /\ raised = "none"
    /\ IdleDate /\ IdleChunk /\ IdleMd

Running == pc \notin {"idle", "done", "done_empty", "failed"}

\* time passes while the run waits for a fetch or for the summarization
Tick ==
    /\ Running /\ ticks < MaxTicks
    /\ now' = now + TickHours
    /\ ticks' = ticks + 1
    /\ UNCHANGED <<pc, days_back, max_items, plimit, ivDate, ivIdx, ivFetched, interviews,
                   prDate, prIdx, entry, pub_date, press, promptDate, delivery,
                   fileWritten, slackPosted, emailSent, raised, dateVars, chunkVars, mdVars>>

\* fetch_minister_interviews, lines 183-187: the listing page is fetched, then
\* the function resolves its own fetch_date
FetchListing ==
    /\ pc = "start"
    /\ \E ok \in BOOLEAN :
         IF ok
         THEN /\ ivDate' = get_fetch_date(now, days_back)
              /\ pc' = "iv_loop"
              /\ raised' = raised
         ELSE /\ raised' = "ListingFetchError"
              /\ pc' = "failed"
              /\ ivDate' = ivDate
    /\ UNCHANGED <<now, ticks, days_back, max_items, plimit, ivIdx, ivFetched, interviews,
                   prDate, prIdx, entry, pub_date, press, promptDate, delivery,
                   fileWritten, slackPosted, emailSent, dateVars, chunkVars, mdVars>>

\* one iteration of the loop over the links, lines 190-223
IvLink ==
    /\ pc = "iv_loop" /\ ivIdx < MaxLinks
    /\ ivIdx' = ivIdx + 1
    /\ \E a \in Links, ok \in BOOLEAN, page \in Pages :
         IF ~link_matches(a, ivDate)
         THEN UNCHANGED <<pc, ivFetched, interviews, raised>>            \* continue
         ELSE /\ ivFetched' = ivFetched + 1
              /\ IF ~ok
                 THEN /\ raised' = "DetailFetchError"                   \* fetch_soup raises
                      /\ pc' = "failed"
                      /\ UNCHANGED interviews
                 ELSE IF page.found = "invalid"
                 THEN /\ raised' = "ValueError"                         \* dt.date(y, mth, d)
                      /\ pc' = "failed"
                      /\ UNCHANGED interviews
                 ELSE LET pd == IF page.found = "date" THEN page.d ELSE ivDate
                      IN  IF ivDate # pd
                          THEN UNCHANGED <<pc, interviews, raised>>      \* continue
                          ELSE /\ interviews' =
                                     Append(interviews, [idx |-> ivIdx + 1, date |-> pd])
                               /\ pc' = IF Len(interviews) + 1 >= max_items
                                        THEN "pr_start" ELSE pc          \* break
                               /\ UNCHANGED raised
    /\ UNCHANGED <<now, ticks, days_back, max_items, plimit, ivDate,
                   prDate, prIdx, entry, pub_date, press, promptDate, delivery,
                   fileWritten, slackPosted, emailSent, dateVars, chunkVars, mdVars>>

\* the listing page has no further link: return items
IvEnd ==
    /\ pc = "iv_loop"
    /\ pc' = "pr_start"
    /\ UNCHANGED <<now, ticks, days_back, max_items, plimit, ivDate, ivIdx, ivFetched,
                   interviews, prDate, prIdx, entry, pub_date, press, promptDate, delivery,
                   fileWritten, slackPosted, emailSent, raised, dateVars, chunkVars, mdVars>>

\* fetch_press_releases, lines 79-83: the feed is parsed, then the function
\* resolves its own fetch_date
PrParse ==
    /\ pc = "pr_start"
    /\ prDate' = get_fetch_date(now, days_back)
    /\ pc' = "pr_loop"
    /\ UNCHANGED <<now, ticks, days_back, max_items, plimit, ivDate, ivIdx, ivFetched,
                   interviews, prIdx, entry, pub_date, press, promptDate, delivery,
                   fileWritten, slackPosted, emailSent, raised, dateVars, chunkVars, mdVars>>

\* one iteration of the loop over d.entries[:limit], lines 85-127
PrEntry ==
    /\ pc = "pr_loop" /\ prIdx < plimit /\ prIdx < MaxEntries
    /\ prIdx' = prIdx + 1
    /\ \E en \in Entries, ok \in BOOLEAN :
         /\ entry' = en
         /\ LET pd == derived_pub_date(en, prDate)
            IN  IF pd = AttrError
                THEN /\ raised' = "AttributeError"                      \* e.dc_date_parsed
                     /\ pc' = "failed"
                     /\ UNCHANGED <<pub_date, press>>
                ELSE /\ pub_date' = pd
                     /\ IF prDate # pd
                        THEN UNCHANGED <<pc, press, raised>>
                        ELSE IF ~ok
                        THEN /\ raised' = "DetailFetchError"            \* fetch_soup raises
                             /\ pc' = "failed"
                             /\ UNCHANGED press
                        ELSE /\ press' = Append(press, [idx |-> prIdx + 1, date |-> pd])
                             /\ UNCHANGED <<pc, raised>>
    /\ UNCHANGED <<now, ticks, days_back, max_items, plimit, ivDate, ivIdx, ivFetched,
                   interviews, prDate, promptDate, delivery,
                   fileWritten, slackPosted, emailSent, dateVars, chunkVars, mdVars>>

\* the feed has no further entry, or limit entries were taken: return items
PrEnd ==
    /\ pc = "pr_loop"
    /\ pc' = "check"
    /\ entry' = NoEntry
    /\ pub_date' = NoDate
    /\ UNCHANGED <<now, ticks, days_back, max_items, plimit, ivDate, ivIdx, ivFetched,
                   interviews, prDate, prIdx, press, promptDate, delivery,
                   fileWritten, slackPosted, emailSent, raised, dateVars, chunkVars, mdVars>>

\* main, lines 434-436: nothing was selected
CheckEmpty ==
    /\ pc = "check" /\ interviews = <<>> /\ press = <<>>
    /\ pc' = "done_empty"
    /\ UNCHANGED <<now, ticks, days_back, max_items, plimit, ivDate, ivIdx, ivFetched,
                   interviews, prDate, prIdx, entry, pub_date, press, promptDate, delivery,
                   fileWritten, slackPosted, emailSent, raised, dateVars, chunkVars, mdVars>>

\* main, line 438: summarize_with_ai builds the prompt (build_prompt resolves
\* its own fetch_date, line 245) and calls the provider, which may raise
Summarize ==
    /\ pc = "check" /\ ~(interviews = <<>> /\ press = <<>>)
    /\ promptDate' = get_fetch_date(now, days_back)
    /\ \E ok \in BOOLEAN :
         IF ok THEN pc' = "write" /\ raised' = raised
         ELSE pc' = "failed" /\ raised' = "SummarizeError"
    /\ UNCHANGED <<now, ticks, days_back, max_items, plimit, ivDate, ivIdx, ivFetched,
                   interviews, prDate, prIdx, entry, pub_date, press, delivery,
                   fileWritten, slackPosted, emailSent, dateVars, chunkVars, mdVars>>

\* main, lines 441-455: latest_summary.md is written, then DELIVERY is read
WriteFile ==
    /\ pc = "write"
    /\ fileWritten' = TRUE
    /\ \E dl \in {"slack", "email", "both", "other"} :
         /\ delivery' = dl
         /\ pc' = IF dl \in {"slack", "both"} THEN "slack"
                  ELSE IF dl = "email" THEN "email" ELSE "done"
    /\ UNCHANGED <<now, ticks, days_back, max_items, plimit, ivDate, ivIdx, ivFetched,
                   interviews, prDate, prIdx, entry, pub_date, press, promptDate,
                   slackPosted, emailSent, raised, dateVars, chunkVars, mdVars>>

\* main, lines 457-458 and send_to_slack: skipped without token or channel,
\* posted, answered not ok (RuntimeError), or SlackApiError re-raised
SendSlack ==
    /\ pc = "slack"
    /\ \E outcome \in {"skipped", "posted", "not_ok", "api_error"} :
         /\ slackPosted' = (outcome = "posted")
         /\ raised' = CASE outcome = "not_ok" -> "RuntimeError"
                         [] outcome = "api_error" -> "SlackApiError"
                         [] OTHER -> raised
         /\ pc' = IF outcome \in {"not_ok", "api_error"} THEN "failed"
                  ELSE IF delivery = "both" THEN "email" ELSE "done"
    /\ UNCHANGED <<now, ticks, days_back, max_items, plimit, ivDate, ivIdx, ivFetched,
                   interviews, prDate, prIdx, entry, pub_date, press, promptDate, delivery,
                   fileWritten, emailSent, dateVars, chunkVars, mdVars>>

\* main, lines 460-461 and send_email: skipped without settings, sent, or the
\* SMTP session raises
SendEmail ==
    /\ pc = "email"
    /\ \E outcome \in {"skipped", "sent", "error"} :
         /\ emailSent' = (outcome = "sent")
         /\ raised' = IF outcome = "error" THEN "SMTPException" ELSE raised
         /\ pc' = IF outcome = "error" THEN "failed" ELSE "done"
    /\ UNCHANGED <<now, ticks, days_back, max_items, plimit, ivDate, ivIdx, ivFetched,
                   interviews, prDate, prIdx, entry, pub_date, press, promptDate, delivery,
                   fileWritten, slackPosted, dateVars, chunkVars, mdVars>>

Next == \/ Tick \/ FetchListing \/ IvLink \/ IvEnd \/ PrParse \/ PrEntry \/ PrEnd
        \/ CheckEmpty \/ Summarize \/ WriteFile \/ SendSlack \/ SendEmail
Spec == Init /\ [][Next]_vars

(* ============================== claims ================================= *)

\* the date dResult was resolved from: date(now) - days_back
Cand == DateJST(dNow) - dDaysBack

\* C1: get_fetch_date never returns a Saturday or a Sunday: a candidate on
\* Monday..Friday is returned unchanged, a Saturday gives the day before and a
\* Sunday the day two days before, the preceding Friday in both cases.
C1_NeverWeekend ==
    dResult # NoDate =>
        /\ Weekday(dResult) \in 0..4
        /\ (Weekday(Cand) \in 0..4 => dResult = Cand)
        /\ (Weekday(Cand) = 5 => dResult = Cand - 1 /\ Weekday(dResult) = 4)
        /\ (Weekday(Cand) = 6 => dResult = Cand - 2 /\ Weekday(dResult) = 4)
        \* 2025-11-17 (Mon), days_back 1: Sunday the 16th, so Friday the 14th
        /\ (DateJST(dNow) = 20409 /\ dDaysBack = 1 => dResult = 20406)
        \* 2025-11-18 (Tue), days_back 1: Monday the 17th
        /\ (DateJST(dNow) = 20410 /\ dDaysBack = 1 => dResult = 20409)

\* a call whose candidate is a Sunday has returned the Friday before it
C1_Witness ==
    dResult # NoDate /\ Weekday(Cand) = 6 /\ dResult = Cand - 2

\* the concatenation of a sequence of texts
RECURSIVE Concat(_)
Concat(ss) == IF ss = <<>> THEN <<>> ELSE Head(ss) \o Concat(Tail(ss))

\* C2: every emitted chunk, and the running accumulation, is at most limit
\* long in every state of the loop; every slice of a hard-split paragraph but
\* its last is exactly limit long; and a text of one paragraph longer than
\* limit gives ceil(len / limit) chunks that are its consecutive slices.
C2_ChunkBound ==
    /\ \A k \in 1..Len(chunks) : Len(chunks[k]) <= limit
    /\ Len(cur) <= limit
    /\ \A k \in 1..(Len(chunks) - 1) : cont[k + 1] => Len(chunks[k]) = limit
    /\ (cpc = "done" /\ Len(paragraphs) = 1 /\ Len(s) > limit) =>
          /\ Len(chunks) * limit >= Len(s)
          /\ (Len(chunks) - 1) * limit < Len(s)
          /\ Concat(chunks) = s
          /\ \A k \in 1..Len(chunks) : cont[k] = (k > 1)

\* a paragraph of 5 characters with limit 3 has given two chunks of 3 and 2
C2_Witness ==
    /\ cpc = "done" /\ Len(paragraphs) = 1 /\ Len(s) = 5 /\ limit = 3
    /\ Len(chunks) = 2 /\ Len(chunks[1]) = 3 /\ Len(chunks[2]) = 2

\* the chunks joined in order with blank-line separators, the boundaries
\* between the slices of a hard-split paragraph collapsed
RECURSIVE JoinFrom(_, _, _)
JoinFrom(cs, fl, k) ==
    IF k > Len(cs) THEN <<>>
    ELSE (IF k = 1 \/ fl[k] THEN <<>> ELSE <<NL, NL>>) \o cs[k] \o JoinFrom(cs, fl, k + 1)

\* C3: the chunks joined with blank-line separators, hard-split boundaries
\* collapsed, reproduce the text given to the chunker exactly, so that no
\* paragraph, empty ones included, is dropped.
C3_JoinReproduces ==
    cpc = "done" => JoinFrom(chunks, cont, 1) = s

\* the date the run resolved first (fetch_minister_interviews, line 185)
RunTargetDate == ivDate

Items == {interviews[k] : k \in 1..Len(interviews)} \cup {press[k] : k \in 1..Len(press)}

\* C4: every item emitted by either selector carries the target date of the
\* run.
C4_ItemsCarryTargetDate ==
    \A it \in Items : it.date = RunTargetDate

\* C5: the target date is one date per run: the dates used by the interview
\* selector, by the press release selector and by prompt assembly are equal.
C5_OneTargetDate ==
    /\ (ivDate # NoDate /\ prDate # NoDate) => prDate = ivDate
    /\ (ivDate # NoDate /\ promptDate # NoDate) => promptDate = ivDate
    /\ (prDate # NoDate /\ promptDate # NoDate) => promptDate = prDate

\* C6: a failed fetch of one candidate's detail page never leaves a selector
\* as an exception that ends the run.
C6_DetailFailureContained ==
    raised # "DetailFetchError"

\* C7: a run that ended with an exception has written no output file and
\* delivered neither the Slack post nor the mail.
C7_FailedRunNoOutput ==
    pc = "failed" => (~fileWritten /\ ~slackPosted /\ ~emailSent)

\* the entry of the current iteration has none of the timestamp fields
NoTimestamp(en) ==
    /\ ~en.none
    /\ en.published_parsed = NoStamp /\ en.updated_parsed = NoStamp
    /\ ~en.dc_date /\ en.dc_date_parsed = NoStamp

\* C8: reading the timestamp fields of an entry never raises; the derived date
\* is that of the first field present in the order published, updated,
\* dc:date; an entry with none of them gets the target date of the run and,
\* its detail page fetched, is in the output with that date.
C8_FallbackInclusion ==
    /\ raised # "AttributeError"
    /\ (pc = "pr_loop" /\ ~entry.none) =>
          /\ entry.published_parsed # NoStamp => pub_date = DateJST(entry.published_parsed)
          /\ (entry.published_parsed = NoStamp /\ entry.updated_parsed # NoStamp)
                => pub_date = DateJST(entry.updated_parsed)
          /\ NoTimestamp(entry) =>
                /\ pub_date = RunTargetDate
                /\ press # <<>>
                /\ press[Len(press)] = [idx |-> prIdx, date |-> RunTargetDate]

\* C10: for every max_items >= 0 the result holds at most max_items items, in
\* the order of their links, and once items have been collected up to the cap
\* the loop is left, so no further link is enumerated and no further page
\* fetched.
C10_StopsAtCap ==
    /\ Len(interviews) <= max_items
    /\ \A j, k \in 1..Len(interviews) : j < k => interviews[j].idx < interviews[k].idx
    /\ (pc = "iv_loop" /\ interviews # <<>>) => Len(interviews) < max_items
    /\ ivFetched <= ivIdx

\* the document is made of fenced code blocks only, one after the other or
\* on lines of their own
RECURSIVE SumLen(_)
SumLen(ss) == IF ss = <<>> THEN 0 ELSE Len(Head(ss)) + SumLen(Tail(ss))

OnlyFencedCode(doc) ==
    LET ex == Extract(doc)
        nl == Cardinality({k \in 1..Len(ex.tmp) : ex.tmp[k] = NL})
    IN  /\ Len(ex.blocks) >= 1
        /\ Len(ex.tmp) = Len(ex.blocks) + nl
        /\ Len(doc) = SumLen(ex.blocks) + nl

\* C9: _convert_md_to_slack returns a document made of fenced code blocks only
\* unchanged, whatever the blocks hold.
C9_CodeRoundTrip ==
    (mpc = "done" /\ OnlyFencedCode(md)) => md_out = md

====
